---- MODULE Spec2Model ----
(***************************************************************************)
(* Model of the Grin command line binary (src/bin/grin.rs) and of the node *)
(* REST endpoints (api/src/endpoints.rs).                                  *)
(*                                                                         *)
(* Two specifications share the module:                                    *)
(*   Spec     one process invocation of the grin binary: main, the server  *)
(*            command (config resolution and run modes), the wallet        *)
(*            command, and the REST worker spawned by start_rest_apis;     *)
(*   SpecApi  requests served by ChainApi and OutputApi against a chain    *)
(*            store.                                                       *)
(*                                                                         *)
(* Option<T> values are sequences of length 0 (None) or 1 (Some(v)).       *)
(* Strings that the program parses are sequences of one-character strings. *)
(***************************************************************************)
EXTENDS Naturals, Integers, Sequences, FiniteSets

VARIABLES args, env, pc, server_config, out, daemon, node, api, wallet, ticks,
          os, chain_outputs, request, response, store_calls

vars == <<args, env, pc, server_config, out, daemon, node, api, wallet, ticks,
          os, chain_outputs, request, response, store_calls>>

cliVars == <<args, env, pc, server_config, out, daemon, node, api, wallet, ticks,
             os>>
apiVars == <<chain_outputs, request, response, store_calls>>

----------------------------------------------------------------------------
(* Bounds of the model *)

MaxPortLen == 2     \* longest --port string
MaxSeeds == 2       \* most --seed values on one command line
MaxAmountLen == 2   \* longest AMOUNT string
MaxTicks == 2       \* iterations of the wait loop that are told apart
MaxIdLen == 2       \* longest identifier in a GET request

None == <<>>
Some(v) == <<v>>

RECURSIVE StringsUpTo(_, _)
StringsUpTo(chars, n) ==
    IF n = 0 THEN {<<>>}
    ELSE LET shorter == StringsUpTo(chars, n - 1)
         IN  shorter \cup {Append(s, c) : s \in shorter, c \in chars}

NonEmptyStrings(chars, n) == StringsUpTo(chars, n) \ {<<>>}

----------------------------------------------------------------------------
(* str::parse for unsigned integers *)

Digits == <<"0", "1", "2", "3", "4", "5", "6", "7", "8", "9">>

IsDigit(c) == \E i \in 1..Len(Digits) : Digits[i] = c

DigitVal(c) == (CHOOSE i \in 1..Len(Digits) : Digits[i] = c) - 1

RECURSIVE DigitsValue(_)
DigitsValue(s) ==
    IF s = <<>> THEN 0
    ELSE 10 * DigitsValue(SubSeq(s, 1, Len(s) - 1)) + DigitVal(s[Len(s)])

\* Ok(n) as Some(n), Err as None
ParseNum(s) ==
    IF s # <<>> /\ \A i \in 1..Len(s) : IsDigit(s[i])
    THEN Some(DigitsValue(s))
    ELSE None

----------------------------------------------------------------------------
(* Configuration *)

WebStatic == [kind |-> "WebStatic", seeds |-> <<>>]
List(seeds) == [kind |-> "List", seeds |-> seeds]

DefaultPort == 0

default_config ==
    [cuckoo_size |-> 12,
     seeding_type |-> WebStatic,
     port |-> DefaultPort,
     enable_mining |-> FALSE]

\* The configurations a well-formed file at ~/.grin can hold
FileConfigs ==
    {[cuckoo_size |-> 30, seeding_type |-> st, port |-> 10,
      enable_mining |-> m] :
        st \in {WebStatic, List(<<"a.com", "b.com">>)}, m \in BOOLEAN}

\* The content of the file that a --config option names
CustomFile ==
    Some([cuckoo_size |-> 20, seeding_type |-> List(<<"d.com">>), port |-> 40,
          enable_mining |-> TRUE])

\* The environment of the process: the home directory and the file in it
Envs ==
    {[home |-> FALSE, file |-> "absent", content |-> None, custom |-> CustomFile]}
    \cup {[home |-> TRUE, file |-> "absent", content |-> None, custom |-> CustomFile]}
    \cup {[home |-> TRUE, file |-> "malformed", content |-> None, custom |-> CustomFile]}
    \cup {[home |-> TRUE, file |-> "valid", content |-> Some(c), custom |-> CustomFile] :
            c \in FileConfigs}

\* read_config that reads the file named by --config when one is given
read_config_custom(e) ==
    IF args.config # None THEN e.custom
    ELSE IF ~e.home THEN None
    ELSE IF e.file = "absent" THEN Some(default_config)
    ELSE IF e.file = "malformed" THEN None
    ELSE e.content

\* read_config that falls back to the defaults when the file does not parse
read_config_fallback(e) ==
    IF ~e.home THEN None
    ELSE IF e.file = "absent" THEN Some(default_config)
    ELSE IF e.file = "malformed" THEN Some(default_config)
    ELSE e.content

\* read_config: Some(config), or None when one of its unwraps panics
read_config(e) ==
    IF ~e.home THEN None
    ELSE IF e.file = "absent" THEN Some(default_config)
    ELSE IF e.file = "malformed" THEN None
    ELSE e.content

----------------------------------------------------------------------------
(* Command line: the ArgMatches that App::get_matches hands to main *)

PortStrings == NonEmptyStrings({"2", "x"}, MaxPortLen)
SeedLists == StringsUpTo({"c.com", "a.com"}, MaxSeeds)
AmountStrings == NonEmptyStrings({"5", "x"}, MaxAmountLen)
Passphrases == {<<"p">>, <<"p", "q">>}

NoArgs ==
    [invalid |-> FALSE, top |-> "", sub |-> "", port |-> None, mine |-> FALSE,
     seed |-> <<>>, config |-> None, pass |-> None, amount |-> None,
     dest |-> None]

ServerArgs ==
    {[NoArgs EXCEPT !.top = "server", !.sub = sub, !.port = port,
                    !.mine = mine, !.seed = seed, !.config = config] :
        sub \in {"run", "start", "stop", ""},
        port \in {None} \cup {Some(p) : p \in PortStrings},
        mine \in BOOLEAN,
        seed \in SeedLists,
        config \in {None, Some("custom.json")}}

ClientArgs == {[NoArgs EXCEPT !.top = "client", !.sub = sub] : sub \in {"status", ""}}

WalletArgs ==
    {[NoArgs EXCEPT !.top = "wallet", !.sub = "receive", !.pass = pass] :
        pass \in {None} \cup {Some(p) : p \in Passphrases}}
    \cup {[NoArgs EXCEPT !.top = "wallet", !.sub = "", !.pass = pass] :
        pass \in {None} \cup {Some(p) : p \in Passphrases}}
    \cup {[NoArgs EXCEPT !.top = "wallet", !.sub = "send", !.pass = pass,
                         !.amount = amount, !.dest = dest] :
        pass \in {None} \cup {Some(p) : p \in Passphrases},
        amount \in {None} \cup {Some(a) : a \in AmountStrings},
        dest \in {None, Some("10.0.0.1:13416")}}

\* A command line with a token that clap does not accept
InvalidArgs == {[NoArgs EXCEPT !.invalid = TRUE]}

Invocations ==
    (ServerArgs \X Envs)
    \cup ((ClientArgs \cup WalletArgs \cup InvalidArgs \cup {NoArgs})
          \X {[home |-> TRUE, file |-> "absent", content |-> None, custom |-> CustomFile]})

----------------------------------------------------------------------------
(* State of one process invocation *)

NoNode == [starts |-> 0, config |-> None, proc |-> "none"]
NoApi == [worker |-> "none", mounts |-> <<>>]
NoWallet == [key |-> None, mounts |-> <<>>, receiver |-> "none", sent |-> <<>>]
NoRequest == [endpoint |-> "none", verb |-> "none", id |-> <<>>]
NoResponse == [kind |-> "none", value |-> <<>>]

InitApiIdle ==
    /\ chain_outputs = {}
    /\ request = NoRequest
    /\ response = NoResponse
    /\ store_calls = <<>>

Init ==
    /\ \E inv \in Invocations : args = inv[1] /\ env = inv[2]
    /\ pc = "main"
    /\ server_config = None
    /\ out = <<>>
    /\ daemon = "none"
    /\ node = NoNode
    /\ api = NoApi
    /\ wallet = NoWallet
    /\ ticks = 0
    /\ os = <<>>
    /\ InitApiIdle

\* The PID file of the daemon
PidFile == "/tmp/grin.pid"

\* One operation of the program on the PID file or on another process
OsCall(proc, op, target) == [proc |-> proc, op |-> op, target |-> target]

\* The process in which the foreground control flow currently runs
Proc == IF daemon = "detached" THEN "detached" ELSE "invoking"

Emit(stream, msg) == out' = Append(out, [proc |-> Proc, stream |-> stream, msg |-> msg])

Terminated == pc \in {"exit_ok", "panicked", "clap_exit"}

\* Exit status of the process the foreground control flow runs in
ExitStatus ==
    CASE pc = "exit_ok" -> 0
      [] pc = "clap_exit" -> 1
      [] pc = "panicked" -> 101
      [] OTHER -> -1

----------------------------------------------------------------------------
(* main *)

Main ==
    /\ pc = "main"
    /\ IF args.invalid
       THEN pc' = "clap_exit" /\ Emit("stderr", "usage")
       ELSE CASE args.top = "server" ->
                     pc' = "server_command" /\ UNCHANGED out
              [] args.top = "client" ->
                     IF args.sub = "status"
                     THEN pc' = "exit_ok" /\ Emit("stdout", "status info...")
                     ELSE pc' = "panicked" /\ Emit("stderr", "Unknown client command")
              [] args.top = "wallet" ->
                     pc' = "wallet_command" /\ UNCHANGED out
              [] OTHER ->
                     pc' = "exit_ok" /\ Emit("stdout", "Unknown command")
    /\ UNCHANGED <<args, env, server_config, daemon, node, api, wallet, ticks>>
    /\ UNCHANGED apiVars
    /\ UNCHANGED os

----------------------------------------------------------------------------
(* server_command: configuration wrangling *)

\* A server command that serves stop before it reads the configuration
ServerReadConfig_stop_first ==
    /\ pc = "server_command"
    /\ IF args.sub = "stop"
       THEN /\ pc' = "exit_ok" /\ UNCHANGED server_config
            /\ out' = out \o
                 <<[proc |-> Proc, stream |-> "log",
                    msg |-> "Starting the Grin server..."],
                   [proc |-> Proc, stream |-> "stdout",
                    msg |-> "TODO, just 'kill $pid' for now."]>>
       ELSE /\ Emit("log", "Starting the Grin server...")
            /\ LET r == read_config(env)
               IN  IF r = None
                   THEN pc' = "panicked" /\ UNCHANGED server_config
                   ELSE pc' = "server_overrides" /\ server_config' = r
    /\ UNCHANGED <<args, env, daemon, node, api, wallet, ticks>>
    /\ UNCHANGED apiVars
    /\ UNCHANGED os

ServerReadConfig ==
    /\ pc = "server_command"
    /\ Emit("log", "Starting the Grin server...")
    /\ LET r == read_config(env)
       IN  IF r = None
           THEN pc' = "panicked" /\ UNCHANGED server_config
           ELSE pc' = "server_overrides" /\ server_config' = r
    /\ UNCHANGED <<args, env, daemon, node, api, wallet, ticks>>
    /\ UNCHANGED apiVars
    /\ UNCHANGED os

\* Lines 146-154 with --port applied only when the port is still the default
apply_overrides_file_wins(cfg, a) ==
    [cfg EXCEPT
        !.port = IF a.port # None /\ @ = DefaultPort
                 THEN ParseNum(a.port[1])[1] ELSE @,
        !.enable_mining = IF a.mine THEN TRUE ELSE @,
        !.seeding_type = IF a.seed # <<>> THEN List(a.seed) ELSE @]

\* Lines 146-154 with the --seed values appended to the seeds of the file
apply_overrides_merge_seeds(cfg, a) ==
    [cfg EXCEPT
        !.port = IF a.port # None THEN ParseNum(a.port[1])[1] ELSE @,
        !.enable_mining = IF a.mine THEN TRUE ELSE @,
        !.seeding_type = IF a.seed # <<>> THEN List(@.seeds \o a.seed) ELSE @]

\* Lines 146-154 once the --port value has parsed
apply_overrides(cfg, a) ==
    [cfg EXCEPT
        !.port = IF a.port # None THEN ParseNum(a.port[1])[1] ELSE @,
        !.enable_mining = IF a.mine THEN TRUE ELSE @,
        !.seeding_type = IF a.seed # <<>> THEN List(a.seed) ELSE @]

ServerApplyOverrides ==
    /\ pc = "server_overrides"
    /\ IF args.port # None /\ ParseNum(args.port[1]) = None
       THEN pc' = "panicked" /\ UNCHANGED server_config
       ELSE /\ pc' = "server_mode"
            /\ server_config' = Some(apply_overrides(server_config[1], args))
    /\ UNCHANGED <<args, env, out, daemon, node, api, wallet, ticks>>
    /\ UNCHANGED apiVars
    /\ UNCHANGED os

----------------------------------------------------------------------------
(* grin::Server::start and the REST worker of start_rest_apis *)

\* start_rest_apis that registers and starts the server on the calling thread
start_rest_apis_inline(a) ==
    [a EXCEPT !.worker = "serving",
              !.mounts = <<<<"/v1", "/chain">>, <<"/v1", "/chain/output">>>>]

\* start_rest_apis: spawns the worker and returns
start_rest_apis(a) == [a EXCEPT !.worker = "spawned"]

\* grin::Server::start(config) returning Ok: the node runs with config and
\* its REST APIs have been asked to start
ServerStarted(cfg) ==
    /\ node' = [starts |-> node.starts + 1, config |-> Some(cfg), proc |-> Proc]
    /\ api' = start_rest_apis(api)

\* ApiServer::register_endpoint: mounts the endpoint under base + prefix,
\* unless an endpoint is mounted there already, which is an error that leaves
\* the mounts as they are
register_endpoint(mounts, base, prefix) ==
    IF \E i \in 1..Len(mounts) : mounts[i] = <<base, prefix>>
    THEN [ok |-> FALSE, mounts |-> mounts]
    ELSE [ok |-> TRUE, mounts |-> Append(mounts, <<base, prefix>>)]

\* A worker that mounts the output endpoint under /chain as well
ApiWorkerRegister_same_path ==
    /\ ~Terminated
    /\ api.worker = "spawned"
    /\ LET r1 == register_endpoint(api.mounts, "/v1", "/chain")
           r2 == register_endpoint(r1.mounts, "/v1", "/chain")
       IN  api' = [api EXCEPT
                     !.worker = IF r1.ok /\ r2.ok THEN "registered" ELSE "conflict",
                     !.mounts = IF r1.ok THEN r2.mounts ELSE r1.mounts]
    /\ UNCHANGED <<args, env, pc, server_config, out, daemon, node, wallet, ticks>>
    /\ UNCHANGED apiVars
    /\ UNCHANGED os

\* The two registrations of the worker closure; a registration that fails
\* ends the worker before the next one and before the start
ApiWorkerRegister ==
    /\ ~Terminated
    /\ api.worker = "spawned"
    /\ LET r1 == register_endpoint(api.mounts, "/v1", "/chain")
           r2 == register_endpoint(r1.mounts, "/v1", "/chain/output")
       IN  api' = [api EXCEPT
                     !.worker = IF r1.ok /\ r2.ok THEN "registered" ELSE "conflict",
                     !.mounts = IF r1.ok THEN r2.mounts ELSE r1.mounts]
    /\ UNCHANGED <<args, env, pc, server_config, out, daemon, node, wallet, ticks>>
    /\ UNCHANGED apiVars
    /\ UNCHANGED os

ApiWorkerStart(ok) ==
    /\ ~Terminated
    /\ api.worker = "registered"
    /\ IF ok
       THEN api' = [api EXCEPT !.worker = "serving"] /\ UNCHANGED out
       ELSE /\ api' = [api EXCEPT !.worker = "failed"]
            /\ Emit("log", "Failed to start API HTTP server")
    /\ UNCHANGED <<args, env, pc, server_config, daemon, node, wallet, ticks>>
    /\ UNCHANGED apiVars
    /\ UNCHANGED os

----------------------------------------------------------------------------
(* server_command: run modes *)

ServerRun(ok) ==
    /\ pc = "server_mode" /\ args.sub = "run"
    /\ IF ok
       THEN pc' = "wait" /\ ServerStarted(server_config[1])
       ELSE pc' = "panicked" /\ UNCHANGED <<node, api>>
    /\ UNCHANGED <<args, env, server_config, out, daemon, wallet, ticks>>
    /\ UNCHANGED apiVars
    /\ UNCHANGED os

\* A wait that returns after its first sleeps
Wait_returns ==
    /\ pc = "wait"
    /\ ticks' = IF ticks < MaxTicks THEN ticks + 1 ELSE ticks
    /\ pc' = IF ticks >= 1 THEN "exit_ok" ELSE pc
    /\ UNCHANGED <<args, env, server_config, out, daemon, node, api, wallet>>
    /\ UNCHANGED apiVars
    /\ UNCHANGED os

\* loop { thread::sleep(Duration::from_secs(60)); }
Wait ==
    /\ pc = "wait"
    /\ ticks' = IF ticks < MaxTicks THEN ticks + 1 ELSE ticks
    /\ UNCHANGED <<args, env, pc, server_config, out, daemon, node, api, wallet>>
    /\ UNCHANGED apiVars
    /\ UNCHANGED os

\* A start mode that logs the error of daemonize.start() and then runs the
\* action in the invoking process
ServerStart_fallthrough(ok) ==
    /\ pc = "server_mode" /\ args.sub = "start"
    /\ pc' = "daemon_action"
    /\ IF ok
       THEN /\ daemon' = "detached" /\ UNCHANGED out
            /\ os' = Append(os, OsCall("detached", "write", PidFile))
       ELSE /\ daemon' = "failed" /\ UNCHANGED os
            /\ Emit("log", "Error starting")
    /\ UNCHANGED <<args, env, server_config, node, api, wallet, ticks>>
    /\ UNCHANGED apiVars

\* daemonize.start(): on Err the error is logged and server_command returns;
\* otherwise the control flow continues in the detached process, about to run
\* the privileged action, and the invoking process is gone
ServerStart(ok) ==
    /\ pc = "server_mode" /\ args.sub = "start"
    /\ IF ok
       THEN /\ pc' = "daemon_action" /\ daemon' = "detached" /\ UNCHANGED out
            /\ os' = Append(os, OsCall("detached", "write", PidFile))
       ELSE /\ pc' = "exit_ok" /\ daemon' = "failed" /\ UNCHANGED os
            /\ Emit("log", "Error starting")
    /\ UNCHANGED <<args, env, server_config, node, api, wallet, ticks>>
    /\ UNCHANGED apiVars

\* The privileged action (lines 168-173); it never returns, so the Ok arm of
\* line 175 is never taken
DaemonAction(ok) ==
    /\ pc = "daemon_action"
    /\ IF ok
       THEN pc' = "wait" /\ ServerStarted(server_config[1])
       ELSE pc' = "panicked" /\ UNCHANGED <<node, api>>
    /\ UNCHANGED <<args, env, server_config, out, daemon, wallet, ticks>>
    /\ UNCHANGED apiVars
    /\ UNCHANGED os

\* A stop mode that prints its message and goes on to run the node
ServerStop_then_run ==
    /\ pc = "server_mode" /\ args.sub = "stop"
    /\ pc' = "wait"
    /\ Emit("stdout", "TODO, just 'kill $pid' for now.")
    /\ ServerStarted(server_config[1])
    /\ UNCHANGED <<args, env, server_config, daemon, wallet, ticks>>
    /\ UNCHANGED apiVars
    /\ UNCHANGED os

\* A stop mode that reads the PID file and signals the daemon
ServerStop_kills ==
    /\ pc = "server_mode" /\ args.sub = "stop"
    /\ pc' = "exit_ok"
    /\ Emit("stdout", "TODO, just 'kill $pid' for now.")
    /\ os' = os \o <<OsCall(Proc, "read", PidFile), OsCall(Proc, "kill", "daemon")>>
    /\ UNCHANGED <<args, env, server_config, daemon, node, api, wallet, ticks>>
    /\ UNCHANGED apiVars

ServerStop ==
    /\ pc = "server_mode" /\ args.sub = "stop"
    /\ pc' = "exit_ok"
    /\ Emit("stdout", "TODO, just 'kill $pid' for now.")
    /\ UNCHANGED <<args, env, server_config, daemon, node, api, wallet, ticks>>
    /\ UNCHANGED apiVars
    /\ UNCHANGED os

ServerUnknown ==
    /\ pc = "server_mode" /\ args.sub \notin {"run", "start", "stop"}
    /\ pc' = "panicked"
    /\ Emit("stderr", "Unknown server command")
    /\ UNCHANGED <<args, env, server_config, daemon, node, api, wallet, ticks>>
    /\ UNCHANGED apiVars
    /\ UNCHANGED os

----------------------------------------------------------------------------
(* wallet_command *)

\* Keccak::new_sha3_256 over the passphrase bytes, as a symbolic digest
sha3_256(bytes) == <<"sha3_256", bytes>>

\* wallet::ExtendedKey::from_seed returning Ok
ExtendedKey(seed) == [seed |-> seed]

\* A derivation whose seed also hashes the name of the wallet subcommand
WalletDerive_salted(ok) ==
    /\ pc = "wallet_command"
    /\ IF args.pass = None
       THEN /\ pc' = "panicked" /\ UNCHANGED wallet
            /\ Emit("stderr", "Wallet passphrase required.")
       ELSE IF ok
       THEN /\ pc' = "wallet_mode" /\ UNCHANGED out
            /\ wallet' = [wallet EXCEPT !.key =
                   Some(ExtendedKey(sha3_256(Append(args.pass[1], args.sub))))]
       ELSE /\ pc' = "panicked" /\ UNCHANGED wallet
            /\ Emit("stderr", "Error deriving extended key from seed.")
    /\ UNCHANGED <<args, env, server_config, daemon, node, api, ticks>>
    /\ UNCHANGED apiVars
    /\ UNCHANGED os

\* A derivation that goes on with the key of the empty passphrase when no
\* passphrase is given or the derivation fails
WalletDerive_default_key(ok) ==
    /\ pc = "wallet_command"
    /\ pc' = "wallet_mode"
    /\ wallet' = [wallet EXCEPT !.key =
           IF args.pass # None /\ ok
           THEN Some(ExtendedKey(sha3_256(args.pass[1])))
           ELSE Some(ExtendedKey(sha3_256(<<>>)))]
    /\ UNCHANGED <<args, env, server_config, out, daemon, node, api, ticks>>
    /\ UNCHANGED apiVars
    /\ UNCHANGED os

WalletDerive(ok) ==
    /\ pc = "wallet_command"
    /\ IF args.pass = None
       THEN /\ pc' = "panicked" /\ UNCHANGED wallet
            /\ Emit("stderr", "Wallet passphrase required.")
       ELSE IF ok
       THEN /\ pc' = "wallet_mode" /\ UNCHANGED out
            /\ wallet' = [wallet EXCEPT
                            !.key = Some(ExtendedKey(sha3_256(args.pass[1])))]
       ELSE /\ pc' = "panicked" /\ UNCHANGED wallet
            /\ Emit("stderr", "Error deriving extended key from seed.")
    /\ UNCHANGED <<args, env, server_config, daemon, node, api, ticks>>
    /\ UNCHANGED apiVars
    /\ UNCHANGED os

WalletReceive(ok) ==
    /\ pc = "wallet_mode" /\ args.sub = "receive"
    /\ LET r == register_endpoint(wallet.mounts, "/v1", "/receive_coinbase")
       IN
       IF ~r.ok
       THEN /\ pc' = "panicked"
            /\ wallet' = [wallet EXCEPT !.mounts = r.mounts]
            /\ Emit("log", "Starting the Grin wallet receiving daemon...")
       ELSE IF ok
       THEN /\ pc' = "receiving"
            /\ wallet' = [wallet EXCEPT !.mounts = r.mounts, !.receiver = "serving"]
            /\ Emit("log", "Starting the Grin wallet receiving daemon...")
       ELSE /\ pc' = "exit_ok"
            /\ wallet' = [wallet EXCEPT !.mounts = r.mounts, !.receiver = "failed"]
            /\ out' = out \o
                 <<[proc |-> Proc, stream |-> "log",
                    msg |-> "Starting the Grin wallet receiving daemon..."],
                   [proc |-> Proc, stream |-> "log",
                    msg |-> "Failed to start Grin wallet receiver"]>>
    /\ UNCHANGED <<args, env, server_config, daemon, node, api, ticks>>
    /\ UNCHANGED apiVars
    /\ UNCHANGED os

\* A send that issues the transaction to stdout when the issue to the
\* destination failed
WalletSend_fallback(ok) ==
    /\ pc = "wallet_mode" /\ args.sub = "send"
    /\ IF args.amount = None
       THEN /\ pc' = "panicked" /\ UNCHANGED wallet
            /\ Emit("stderr", "Amount to send required")
       ELSE IF ParseNum(args.amount[1]) = None
       THEN /\ pc' = "panicked" /\ UNCHANGED wallet
            /\ Emit("stderr", "Could not parse amount as a whole number.")
       ELSE LET amount == ParseNum(args.amount[1])[1]
                dest == IF args.dest # None THEN args.dest[1] ELSE "stdout"
                tx == [key |-> wallet.key, amount |-> amount, dest |-> dest]
            IN  /\ wallet' = [wallet EXCEPT !.sent =
                       IF ok THEN Append(@, tx)
                       ELSE @ \o <<tx, [tx EXCEPT !.dest = "stdout"]>>]
                /\ pc' = "exit_ok"
                /\ UNCHANGED out
    /\ UNCHANGED <<args, env, server_config, daemon, node, api, ticks>>
    /\ UNCHANGED apiVars
    /\ UNCHANGED os

WalletSend(ok) ==
    /\ pc = "wallet_mode" /\ args.sub = "send"
    /\ IF args.amount = None
       THEN /\ pc' = "panicked" /\ UNCHANGED wallet
            /\ Emit("stderr", "Amount to send required")
       ELSE IF ParseNum(args.amount[1]) = None
       THEN /\ pc' = "panicked" /\ UNCHANGED wallet
            /\ Emit("stderr", "Could not parse amount as a whole number.")
       ELSE LET amount == ParseNum(args.amount[1])[1]
                dest == IF args.dest # None THEN args.dest[1] ELSE "stdout"
            IN  /\ wallet' = [wallet EXCEPT !.sent = Append(@,
                       [key |-> wallet.key, amount |-> amount, dest |-> dest])]
                /\ pc' = IF ok THEN "exit_ok" ELSE "panicked"
                /\ UNCHANGED out
    /\ UNCHANGED <<args, env, server_config, daemon, node, api, ticks>>
    /\ UNCHANGED apiVars
    /\ UNCHANGED os

WalletUnknown ==
    /\ pc = "wallet_mode" /\ args.sub \notin {"receive", "send"}
    /\ pc' = "panicked"
    /\ Emit("stderr", "Unknown wallet command")
    /\ UNCHANGED <<args, env, server_config, daemon, node, api, wallet, ticks>>
    /\ UNCHANGED apiVars
    /\ UNCHANGED os

----------------------------------------------------------------------------
(* One process invocation *)

Next ==
    \/ Main
    \/ ServerReadConfig
    \/ ServerApplyOverrides
    \/ \E ok \in BOOLEAN : ServerRun(ok)
    \/ Wait
    \/ \E ok \in BOOLEAN : ServerStart(ok)
    \/ \E ok \in BOOLEAN : DaemonAction(ok)
    \/ ServerStop
    \/ ServerUnknown
    \/ ApiWorkerRegister
    \/ \E ok \in BOOLEAN : ApiWorkerStart(ok)
    \/ \E ok \in BOOLEAN : WalletDerive(ok)
    \/ \E ok \in BOOLEAN : WalletReceive(ok)
    \/ \E ok \in BOOLEAN : WalletSend(ok)
    \/ WalletUnknown

Spec == Init /\ [][Next]_vars

----------------------------------------------------------------------------
(* REST endpoints: ChainApi and OutputApi over the chain store *)

HexDigits == <<"0", "1", "2", "3", "4", "5", "6", "7", "8", "9",
               "a", "b", "c", "d", "e", "f">>

IsHexDigit(c) == \E i \in 1..Len(HexDigits) : HexDigits[i] = c

HexVal(c) == (CHOOSE i \in 1..Len(HexDigits) : HexDigits[i] = c) - 1

IsHex(s) == \A i \in 1..Len(s) : IsHexDigit(s[i])

\* The bytes of a string of hex digits, two digits to a byte, a last single
\* digit being a byte of its own
RECURSIVE HexBytes(_)
HexBytes(s) ==
    IF s = <<>> THEN <<>>
    ELSE IF Len(s) = 1 THEN <<HexVal(s[1])>>
    ELSE <<16 * HexVal(s[1]) + HexVal(s[2])>> \o HexBytes(SubSeq(s, 3, Len(s)))

\* util::from_hex: Ok(bytes) as Some(bytes), Err as None
from_hex(s) == IF IsHex(s) THEN Some(HexBytes(s)) ELSE None

\* Commitment::from_vec copies the bytes into a zeroed fixed-size array, so
\* two byte strings that differ only in trailing zero bytes are the same
\* commitment; a commitment is written without its trailing zero bytes
RECURSIVE from_vec(_)
from_vec(v) ==
    IF v # <<>> /\ v[Len(v)] = 0 THEN from_vec(SubSeq(v, 1, Len(v) - 1)) ELSE v

\* chain_store.get_output_by_commit: the stored output, or the error of the
\* store (the commitment is absent, or the backend failed)
get_output_by_commit(outputs, commit, backend_ok) ==
    IF ~backend_ok THEN [ok |-> FALSE, err |-> "backend failure", value |-> <<>>]
    ELSE IF commit \in outputs THEN [ok |-> TRUE, err |-> "", value |-> commit]
    ELSE [ok |-> FALSE, err |-> "not found", value |-> <<>>]

ApiOk(v) == [kind |-> "Ok", value |-> v]
ApiError(kind) == [kind |-> kind, value |-> <<>>]

\* The verbs an endpoint can declare
Operations == {"Get", "Create", "Update", "Delete"}

\* The server's dispatch of a request to an endpoint that declares the
\* operations ops: a verb outside ops is refused, any other is answered by the
\* endpoint's method for it
dispatch(ops, verb, handled) ==
    IF verb \in ops THEN handled
    ELSE [response |-> ApiError("MethodNotAllowed"), store_calls |-> <<>>]

\* The methods of ApiEndpoint that ChainApi and OutputApi do not implement
unimplemented == [response |-> ApiError("Unimplemented"), store_calls |-> <<>>]

\* One call made to the chain store while a request is handled
StoreCall(op, r) == [op |-> op, result |-> IF r.ok THEN "ok" ELSE r.err]

\* OutputApi::get with a decode failure replaced by the empty byte string
OutputApi_get_lenient(outputs, id, backend_ok) ==
    LET c == IF from_hex(id) = None THEN Some(<<>>) ELSE from_hex(id)
        r == get_output_by_commit(outputs, from_vec(c[1]), backend_ok)
    IN  [response |-> IF r.ok THEN ApiOk(r.value) ELSE ApiError("Internal"),
         store_calls |-> <<StoreCall("get_output_by_commit", r)>>]

\* OutputApi::get: the response and the calls made to the chain store
OutputApi_get(outputs, id, backend_ok) ==
    LET c == from_hex(id)
    IN  IF c = None
        THEN [response |-> ApiError("Argument"), store_calls |-> <<>>]
        ELSE LET r == get_output_by_commit(outputs, from_vec(c[1]), backend_ok)
             IN  [response |-> IF r.ok THEN ApiOk(r.value) ELSE ApiError("Internal"),
                  store_calls |-> <<StoreCall("get_output_by_commit", r)>>]

\* OutputApi::operations with every verb declared
OutputApi_operations_all == Operations

\* OutputApi::operations
OutputApi_operations == {"Get"}

OutputApiGet(id, backend_ok) ==
    /\ api.worker = "serving"
    /\ LET r == dispatch(OutputApi_operations, "Get",
                         OutputApi_get(chain_outputs, id, backend_ok))
       IN  /\ request' = [endpoint |-> "/v1/chain/output", verb |-> "Get", id |-> id]
           /\ response' = r.response
           /\ store_calls' = r.store_calls
    /\ UNCHANGED chain_outputs
    /\ UNCHANGED cliVars

\* A request to the output endpoint with a verb other than Get
OutputApiOther(verb, id) ==
    /\ api.worker = "serving"
    /\ verb \in Operations \ {"Get"}
    /\ LET r == dispatch(OutputApi_operations, verb, unimplemented)
       IN  /\ request' = [endpoint |-> "/v1/chain/output", verb |-> verb, id |-> id]
           /\ response' = r.response
           /\ store_calls' = r.store_calls
    /\ UNCHANGED chain_outputs
    /\ UNCHANGED cliVars

\* chain_store.head: the tip of the chain, or the error of the store
head(backend_ok) ==
    IF backend_ok THEN [ok |-> TRUE, err |-> "", value |-> <<"tip">>]
    ELSE [ok |-> FALSE, err |-> "backend failure", value |-> <<>>]

\* ChainApi::get: the head of the chain, whatever the identifier
ChainApi_get(id, backend_ok) ==
    LET r == head(backend_ok)
    IN  [response |-> IF r.ok THEN ApiOk(r.value) ELSE ApiError("Internal"),
         store_calls |-> <<StoreCall("head", r)>>]

\* ChainApi::operations
ChainApi_operations == {"Get"}

ChainApiGet(id, backend_ok) ==
    /\ api.worker = "serving"
    /\ LET r == dispatch(ChainApi_operations, "Get", ChainApi_get(id, backend_ok))
       IN  /\ request' = [endpoint |-> "/v1/chain", verb |-> "Get", id |-> id]
           /\ response' = r.response
           /\ store_calls' = r.store_calls
    /\ UNCHANGED chain_outputs
    /\ UNCHANGED cliVars

\* A request to the chain endpoint with a verb other than Get
ChainApiOther(verb, id) ==
    /\ api.worker = "serving"
    /\ verb \in Operations \ {"Get"}
    /\ LET r == dispatch(ChainApi_operations, verb, unimplemented)
       IN  /\ request' = [endpoint |-> "/v1/chain", verb |-> verb, id |-> id]
           /\ response' = r.response
           /\ store_calls' = r.store_calls
    /\ UNCHANGED chain_outputs
    /\ UNCHANGED cliVars

RequestIds == NonEmptyStrings({"0", "a", "g"}, MaxIdLen)

StoredCommitments == {<<>>, <<10>>, <<160>>}

\* A node run in the foreground whose REST worker is serving
InitServing ==
    /\ args = [NoArgs EXCEPT !.top = "server", !.sub = "run"]
    /\ env = [home |-> TRUE, file |-> "absent", content |-> None, custom |-> CustomFile]
    /\ pc = "wait"
    /\ server_config = Some(default_config)
    /\ out = <<[proc |-> "invoking", stream |-> "log",
                msg |-> "Starting the Grin server..."]>>
    /\ daemon = "none"
    /\ node = [starts |-> 1, config |-> Some(default_config), proc |-> "invoking"]
    /\ api = [worker |-> "serving",
              mounts |-> <<<<"/v1", "/chain">>, <<"/v1", "/chain/output">>>>]
    /\ wallet = NoWallet
    /\ ticks = 0
    /\ os = <<>>

InitApi ==
    /\ InitServing
    /\ chain_outputs \in SUBSET StoredCommitments
    /\ request = NoRequest
    /\ response = NoResponse
    /\ store_calls = <<>>

NextApi ==
    \/ \E id \in RequestIds, backend_ok \in BOOLEAN : OutputApiGet(id, backend_ok)
    \/ \E id \in RequestIds, backend_ok \in BOOLEAN : ChainApiGet(id, backend_ok)
    \/ \E verb \in Operations, id \in RequestIds : OutputApiOther(verb, id)
    \/ \E verb \in Operations, id \in RequestIds : ChainApiOther(verb, id)

SpecApi == InitApi /\ [][NextApi]_vars

----------------------------------------------------------------------------
(* Properties of the REST endpoints, checked under SpecApi *)

OutputRequest == request.endpoint = "/v1/chain/output" /\ request.verb = "Get"

\* C1: GET /v1/chain/output/{h} for valid hex h whose commitment the chain
\* store does not hold answers with the error kind NotFound, never Internal.
C1_AbsentCommitmentIsNotFound ==
    (/\ OutputRequest
     /\ IsHex(request.id)
     /\ from_vec(HexBytes(request.id)) \notin chain_outputs
     /\ store_calls = <<[op |-> "get_output_by_commit", result |-> "not found"]>>)
        => response.kind = "NotFound"

\* C2: GET /v1/chain/output/{h} for h that is not valid hex answers with the
\* error kind Argument, and no call is made to the chain store in that request.
C2_NonHexIsArgumentBeforeStore ==
    (OutputRequest /\ ~IsHex(request.id))
        => (response.kind = "Argument" /\ store_calls = <<>>)

\* A request with an identifier that mixes hex digits with another character
C2_Witness ==
    /\ OutputRequest
    /\ request.id = <<"a", "g">>
    /\ response.kind = "Argument"
    /\ store_calls = <<>>

----------------------------------------------------------------------------
(* Properties of one process invocation, checked under Spec *)

ServerInvocation == args.top = "server"
WalletInvocation == args.top = "wallet"

\* The overrides have been applied and the run mode is being served
Resolved == ServerInvocation /\ pc \in {"server_mode", "daemon_action", "wait"}

CountMsg(m) == Cardinality({i \in 1..Len(out) : out[i].msg = m})

ExpectedPort ==
    IF args.port # None THEN ParseNum(args.port[1])[1]
    ELSE IF env.file = "valid" THEN env.content[1].port
    ELSE DefaultPort

ExpectedMining ==
    IF args.mine THEN TRUE
    ELSE IF env.file = "valid" THEN env.content[1].enable_mining
    ELSE FALSE

\* C3: the p2p port the node is started with is the --port value if given,
\* else the value of the file if the file exists, else the default; mining is
\* enabled if --mine is given, and is else what the file or the default says.
C3_PortAndMiningPrecedence ==
    /\ Resolved =>
         /\ server_config[1].port = ExpectedPort
         /\ server_config[1].enable_mining = ExpectedMining
    /\ node.config # None =>
         /\ node.config[1].port = ExpectedPort
         /\ node.config[1].enable_mining = ExpectedMining

\* The file sets port 10 and leaves mining off, the command line says
\* --port 22 --mine, and the node runs on port 22 with mining on
C3_Witness ==
    /\ env.file = "valid"
    /\ env.content[1].port = 10 /\ ~env.content[1].enable_mining
    /\ args.port = Some(<<"2", "2">>) /\ args.mine
    /\ node.starts = 1
    /\ node.config[1].port = 22 /\ node.config[1].enable_mining

ExpectedSeeding ==
    IF args.seed # <<>> THEN List(args.seed)
    ELSE IF env.file = "valid" THEN env.content[1].seeding_type
    ELSE WebStatic

\* C4: with --seed values the seeding type is the list of exactly those
\* values in their order, whatever the file says; without --seed it is the
\* seeding type of the file, or WebStatic when there is no file.
C4_SeedsReplace ==
    /\ Resolved => server_config[1].seeding_type = ExpectedSeeding
    /\ node.config # None => node.config[1].seeding_type = ExpectedSeeding

\* The file lists a.com and b.com, the command line says --seed c.com, and
\* the node runs with the list of c.com alone
C4_Witness ==
    /\ env.file = "valid"
    /\ env.content[1].seeding_type = List(<<"a.com", "b.com">>)
    /\ args.seed = <<"c.com">>
    /\ node.starts = 1
    /\ node.config[1].seeding_type = List(<<"c.com">>)

\* C5: a config file that exists but does not parse ends the server command
\* in a panic: no config is resolved, the node is never started and no
\* endpoint is mounted. Without a config file read_config succeeds with the
\* defaults: cuckoo_size 12, WebStatic seeding, mining disabled.
C5_MalformedIsFatalAbsentIsDefault ==
    /\ (ServerInvocation /\ env.file = "malformed") =>
         /\ pc \in {"main", "server_command", "panicked"}
         /\ server_config = None
         /\ node = NoNode
         /\ api = NoApi
    /\ (ServerInvocation /\ env.home /\ env.file = "absent"
            /\ pc \notin {"main", "server_command"}) =>
         /\ server_config # None
         /\ pc = "server_overrides" =>
              /\ server_config[1].cuckoo_size = 12
              /\ server_config[1].seeding_type = WebStatic
              /\ server_config[1].enable_mining = FALSE

\* `server run` with a malformed file has panicked in read_config
C5_Witness ==
    /\ ServerInvocation /\ args.sub = "run"
    /\ env.file = "malformed"
    /\ pc = "panicked"
    /\ CountMsg("Starting the Grin server...") = 1

\* The command line names no known subcommand at the top level or under
\* server, client or wallet
NoKnownSubcommand ==
    \/ args.invalid
    \/ args.top = ""
    \/ args.top \in {"server", "client", "wallet"} /\ args.sub = ""

\* C6: an invocation whose subcommand is unknown or missing, at the top
\* level or under server, client or wallet, never ends with a successful
\* exit.
C6_UnknownSubcommandFails ==
    (NoKnownSubcommand /\ Terminated) => ExitStatus # 0

WalletActed ==
    wallet.mounts # <<>> \/ wallet.receiver # "none" \/ wallet.sent # <<>>

\* C7: in every wallet invocation the key is derived before any wallet
\* action: without a passphrase, or when the derivation fails, the process
\* panics with no endpoint registered, no receiver started and no transaction
\* issued, and every action uses the key derived from the passphrase.
C7_KeyBeforeWalletAction ==
    /\ WalletActed =>
         /\ args.pass # None
         /\ wallet.key = Some(ExtendedKey(sha3_256(args.pass[1])))
    /\ \A i \in 1..Len(wallet.sent) :
         /\ wallet.sent[i].key # None
         /\ wallet.sent[i].key = wallet.key
    /\ (WalletInvocation /\ wallet.key = None) =>
         /\ pc \in {"main", "wallet_command", "panicked"}
         /\ ~WalletActed
    /\ (WalletInvocation /\ args.pass = None /\ pc \notin {"main", "wallet_command"}) =>
         /\ pc = "panicked"
         /\ CountMsg("Wallet passphrase required.") = 1

\* `wallet send` without --pass has panicked before issuing anything
C7_Witness ==
    /\ WalletInvocation /\ args.sub = "send"
    /\ args.pass = None
    /\ args.amount = Some(<<"5">>)
    /\ pc = "panicked"
    /\ ~WalletActed

\* C8: start_rest_apis returns with the worker spawned and nothing yet
\* registered or bound; registration and start happen in steps of the worker
\* that leave the foreground control flow where it is; a failed start is
\* logged exactly once and the foreground keeps running.
C8_RestApisStartOffThread ==
    /\ [](/\ CountMsg("Failed to start API HTTP server")
                = IF api.worker = "failed" THEN 1 ELSE 0
          /\ api.worker = "failed" => (pc = "wait" /\ ~Terminated))
    /\ [][/\ (api.worker = "none" /\ api'.worker # "none") =>
                (api'.worker = "spawned" /\ api'.mounts = <<>>)
          /\ (api.worker # "none" /\ api' # api) =>
                (pc' = pc /\ node' = node /\ ticks' = ticks)
          /\ api.worker = "failed" => (api' = api /\ pc' = pc)]_vars

\* The start of the REST server failed and the foreground has slept since
C8_Witness ==
    /\ api.worker = "failed"
    /\ api.mounts = <<<<"/v1", "/chain">>, <<"/v1", "/chain/output">>>>
    /\ pc = "wait"
    /\ ticks >= 1
    /\ out[Len(out)].msg = "Failed to start API HTTP server"

RunMode == ServerInvocation /\ args.sub = "run"

\* C9: in Run mode, once the node has started the foreground is in the wait
\* loop and stays there, and the node is started once and never again; if
\* the start fails the process panics and the wait loop is never entered.
C9_RunWaitsForever ==
    /\ [](RunMode =>
            /\ node.starts <= 1
            /\ pc = "wait" <=> node.starts = 1
            /\ node.starts = 1 =>
                 (node.config = server_config /\ node.proc = "invoking")
            /\ (node.starts = 0 /\ pc \notin {"main", "server_command",
                                              "server_overrides", "server_mode"})
                 => pc = "panicked")
    /\ [][(RunMode /\ pc = "wait") => (pc' = "wait" /\ node' = node)]_vars

\* The node runs in the foreground and the wait loop has gone round
C9_Witness ==
    /\ RunMode
    /\ node.starts = 1
    /\ pc = "wait"
    /\ ticks >= 2

StartMode == ServerInvocation /\ args.sub = "start"

\* C10: in Start mode a failed detach is logged by the invoking process,
\* which then returns, and the node is never started; the node is started
\* only in the detached process, and the wait loop is never run by the
\* invoking process.
C10_DaemonizeFailureStartsNothing ==
    /\ daemon = "failed" =>
         /\ StartMode
         /\ node = NoNode
         /\ api = NoApi
         /\ pc = "exit_ok"
         /\ CountMsg("Error starting") = 1
         /\ out[Len(out)] = [proc |-> "invoking", stream |-> "log",
                             msg |-> "Error starting"]
    /\ (StartMode /\ node.starts > 0) =>
         /\ daemon = "detached"
         /\ node.proc = "detached"
         /\ node.starts = 1
    /\ (StartMode /\ pc \in {"daemon_action", "wait"}) => daemon = "detached"
    /\ daemon # "none" => StartMode

\* The detach failed and server_command has returned
C10_Witness ==
    /\ StartMode
    /\ daemon = "failed"
    /\ pc = "exit_ok"
    /\ node.starts = 0

\* C11: the derived key depends on the passphrase alone: whatever the
\* subcommand and the other arguments of a wallet invocation, the seed is the
\* SHA3-256 digest of the passphrase bytes and the key is the extended key of
\* that seed, and once derived the key does not change.
C11_KeyDependsOnPassphraseOnly ==
    /\ [](/\ wallet.key # None =>
               /\ args.pass # None
               /\ wallet.key[1].seed = <<"sha3_256", args.pass[1]>>
               /\ wallet.key[1] = [seed |-> <<"sha3_256", args.pass[1]>>]
          /\ (WalletInvocation /\ pc \in {"wallet_mode", "receiving"}) =>
               wallet.key # None)
    /\ [][wallet.key # None => wallet'.key = wallet.key]_vars

\* `wallet --pass pq receive` serves with the key of the digest of "pq"
C11_Witness ==
    /\ WalletInvocation /\ args.sub = "receive"
    /\ args.pass = Some(<<"p", "q">>)
    /\ pc = "receiving"
    /\ wallet.key = Some([seed |-> <<"sha3_256", <<"p", "q">>>>])

StopMode == ServerInvocation /\ args.sub = "stop"

\* What each run mode leaves behind once it has been entered
ForegroundNode == node.starts > 0 /\ node.proc = "invoking"
Daemonized == daemon # "none"
StopHandled == CountMsg("TODO, just 'kill $pid' for now.") > 0

\* C12: a process enters at most one of the run modes Run, Start and Stop,
\* only after the configuration has been resolved, and stays in it: it never
\* both runs a foreground node and daemonizes, never starts a node after
\* handling Stop, and starts the node at most once.
C12_OneRunModeOnce ==
    /\ [](/\ node.starts <= 1
          /\ ~(ForegroundNode /\ Daemonized)
          /\ ~(ForegroundNode /\ StopHandled)
          /\ ~(Daemonized /\ StopHandled)
          /\ ForegroundNode => RunMode
          /\ Daemonized => StartMode
          /\ StopHandled => (StopMode /\ node = NoNode /\ pc = "exit_ok")
          /\ (ForegroundNode \/ Daemonized \/ StopHandled \/ node.starts > 0) =>
               /\ server_config # None
               /\ pc \notin {"main", "server_command", "server_overrides"})
    /\ [][/\ ForegroundNode => node' = node
          /\ Daemonized => daemon' = daemon
          /\ StopHandled => (StopHandled' /\ node' = node /\ daemon' = daemon)
          /\ node.starts = 1 => node' = node
          /\ pc' = "server_mode" => pc \in {"server_overrides", "server_mode"}]_vars

\* `server start` has detached and the node runs in the detached process
C12_Witness ==
    /\ StartMode
    /\ daemon = "detached"
    /\ node.starts = 1 /\ node.proc = "detached"
    /\ pc = "wait"
    /\ ~StopHandled

\* C13: Stop only prints its message and returns: it starts and stops no
\* node, sends no signal and neither reads nor writes the PID file. The PID
\* file is written only by Start, in the detached process, and is never read.
C13_StopTouchesNothing ==
    /\ [](/\ StopMode => (os = <<>> /\ node = NoNode /\ api = NoApi /\ daemon = "none")
          /\ Len(os) <= 1
          /\ \A i \in 1..Len(os) : os[i] = OsCall("detached", "write", PidFile)
          /\ os # <<>> <=> daemon = "detached")
    /\ [][(StopMode /\ pc = "server_mode" /\ pc' # pc) =>
             /\ pc' = "exit_ok"
             /\ out' = Append(out, [proc |-> "invoking", stream |-> "stdout",
                                    msg |-> "TODO, just 'kill $pid' for now."])
             /\ UNCHANGED <<server_config, daemon, node, api, os>>]_vars

\* `server stop` has printed its message and returned
C13_Witness ==
    /\ StopMode
    /\ pc = "exit_ok"
    /\ StopHandled
    /\ os = <<>>

SendMode == WalletInvocation /\ args.sub = "send"

ExpectedDest == IF args.dest = None THEN "stdout" ELSE args.dest[1]

\* C14: wallet send issues the transaction at most once, with the parsed
\* amount, to "stdout" when --dest is omitted and to the --dest value
\* otherwise; a missing or non-numeric amount panics before anything is
\* issued; after the issue, failed or not, nothing more is issued and the
\* process has ended, by a panic when the issue failed.
C14_SendOnceToChosenDest ==
    /\ [](/\ Len(wallet.sent) <= 1
          /\ wallet.sent # <<>> =>
               /\ SendMode
               /\ args.amount # None
               /\ ParseNum(args.amount[1]) # None
               /\ wallet.sent[1].amount = ParseNum(args.amount[1])[1]
               /\ wallet.sent[1].dest = ExpectedDest
               /\ pc \in {"exit_ok", "panicked"}
          /\ (SendMode /\ (args.amount = None \/ ParseNum(args.amount[1]) = None)) =>
               /\ wallet.sent = <<>>
               /\ pc # "exit_ok"
          /\ (SendMode /\ pc = "exit_ok") => Len(wallet.sent) = 1)
    /\ [][/\ wallet.sent # <<>> => (wallet'.sent = wallet.sent /\ pc' = pc)
          /\ (wallet.sent = <<>> /\ wallet'.sent # <<>>) =>
               (pc = "wallet_mode" /\ pc' \in {"exit_ok", "panicked"})]_vars

\* `wallet send 55 --dest 10.0.0.1:13416` whose issue failed
C14_Witness ==
    /\ SendMode
    /\ args.amount = Some(<<"5", "5">>)
    /\ args.dest = Some("10.0.0.1:13416")
    /\ pc = "panicked"
    /\ wallet.sent = <<[key |-> wallet.key, amount |-> 55, dest |-> "10.0.0.1:13416"]>>

Distinct(mounts) == \A i, j \in 1..Len(mounts) : mounts[i] = mounts[j] => i = j

\* Registering again at any of the mounted paths fails and changes nothing
RemountFails(mounts) ==
    \A i \in 1..Len(mounts) :
        LET r == register_endpoint(mounts, mounts[i][1], mounts[i][2])
        IN  ~r.ok /\ r.mounts = mounts

\* C16: a second registration at a mounted path fails and leaves the first
\* mount in place; the node API server has /v1/chain and /v1/chain/output
\* mounted, and the wallet receiver /v1/receive_coinbase, before they are
\* started, no registration of the program ever conflicts, and nothing is
\* mounted after the start.
C16_DistinctPathsBeforeStart ==
    /\ [](/\ Distinct(api.mounts) /\ Distinct(wallet.mounts)
          /\ RemountFails(api.mounts) /\ RemountFails(wallet.mounts)
          /\ api.worker # "conflict"
          /\ api.worker \in {"none", "spawned"} => api.mounts = <<>>
          /\ api.worker \in {"registered", "serving", "failed"} =>
               api.mounts = <<<<"/v1", "/chain">>, <<"/v1", "/chain/output">>>>
          /\ wallet.receiver = "none" => wallet.mounts = <<>>
          /\ wallet.receiver # "none" =>
               wallet.mounts = <<<<"/v1", "/receive_coinbase">>>>)
    /\ [][/\ api.worker \in {"registered", "serving", "failed"} =>
               api'.mounts = api.mounts
          /\ wallet.receiver # "none" => wallet'.mounts = wallet.mounts]_vars

\* The node API server serves with its two endpoints mounted
C16_Witness ==
    /\ api.worker = "serving"
    /\ api.mounts = <<<<"/v1", "/chain">>, <<"/v1", "/chain/output">>>>
    /\ node.starts = 1

\* Reading the file or parsing the --port value fails
ResolutionFails ==
    \/ ~env.home
    \/ env.file = "malformed"
    \/ args.port # None /\ ParseNum(args.port[1]) = None

ExpectedCuckooSize == IF env.file = "valid" THEN env.content[1].cuckoo_size ELSE 12

\* The configuration with every override of the command line applied
ExpectedConfig ==
    [cuckoo_size |-> ExpectedCuckooSize,
     seeding_type |-> ExpectedSeeding,
     port |-> ExpectedPort,
     enable_mining |-> ExpectedMining]

UnknownHandled == CountMsg("Unknown server command") > 0

\* C17: every server invocation reads the file and applies --port, --mine
\* and --seed before it looks at the run mode: when the file is malformed or
\* the --port value is not a number the process panics before Stop prints its
\* message and before any other run mode acts, and whatever a run mode does,
\* it does with all the overrides applied.
C17_ResolveBeforeRunMode ==
    /\ [](/\ (ServerInvocation /\ ResolutionFails) =>
               /\ pc \in {"main", "server_command", "server_overrides", "panicked"}
               /\ ~StopHandled /\ ~UnknownHandled
               /\ daemon = "none" /\ node = NoNode /\ api = NoApi /\ os = <<>>
          /\ (\/ StopHandled \/ UnknownHandled \/ daemon # "none"
              \/ node.starts > 0 \/ pc = "server_mode") =>
               server_config = Some(ExpectedConfig)
          /\ node.config # None => node.config = Some(ExpectedConfig))
    /\ [][/\ pc = "server_command" =>
               pc' \in {"server_command", "server_overrides", "panicked"}
          /\ pc = "server_overrides" =>
               pc' \in {"server_overrides", "server_mode", "panicked"}
          /\ (pc' = "server_mode" /\ pc # "server_mode") =>
               server_config' = Some(ExpectedConfig)]_vars

\* `server stop` with a malformed file has panicked without its message
C17_Witness ==
    /\ StopMode
    /\ env.file = "malformed"
    /\ pc = "panicked"
    /\ ~StopHandled
    /\ CountMsg("Starting the Grin server...") = 1

----------------------------------------------------------------------------
(* Further properties of the REST endpoints, checked under SpecApi *)

\* C15: the chain and output endpoints declare exactly the operation Get,
\* and a request to either of them with Create, Update or Delete is answered
\* with MethodNotAllowed without any call to the chain store.
C15_OtherVerbsNotAllowed ==
    /\ ChainApi_operations = {"Get"}
    /\ OutputApi_operations = {"Get"}
    /\ (/\ request.endpoint \in {"/v1/chain", "/v1/chain/output"}
        /\ request.verb \in {"Create", "Update", "Delete"}) =>
         /\ response = ApiError("MethodNotAllowed")
         /\ store_calls = <<>>

\* A Delete on the output endpoint has been refused
C15_Witness ==
    /\ request = [endpoint |-> "/v1/chain/output", verb |-> "Delete", id |-> <<"a">>]
    /\ response.kind = "MethodNotAllowed"
    /\ store_calls = <<>>

====
